---------------------------- MODULE Spec2Model ----------------------------
(***************************************************************************)
(* Virtual-memory simulator (src/src/main.c): a trace of (op, addr)        *)
(* records is replayed against a fixed array of page frames with a FIFO,   *)
(* LRU or CLOCK replacement policy, an optional fully-associative TLB with *)
(* its own LRU replacement, and a write-through / write-back dirty policy. *)
(* One step of the model is one iteration of the simulation loop of main.  *)
(***************************************************************************)
EXTENDS Integers, Sequences, FiniteSets, TLC

(***************************************************************************)
(* Bounds of the model.                                                    *)
(***************************************************************************)
MaxFrames == 2      \* num_frames ranges over 1..MaxFrames
MaxTlb == 2         \* tlb_size ranges over 0..MaxTlb
MaxVpn == 2         \* trace addresses lie in pages 0..MaxVpn
MaxTick == 4        \* number of trace records read

(***************************************************************************)
(* Program constants.                                                      *)
(***************************************************************************)
PAGE_SIZE == 4096

ALG_FIFO == 0
ALG_LRU == 1
ALG_CLOCK == 2

WP_WRITE_THROUGH == 0
WP_WRITE_BACK == 1

Algorithms == {ALG_FIFO, ALG_LRU, ALG_CLOCK}
WritePolicies == {WP_WRITE_THROUGH, WP_WRITE_BACK}

\* Operation characters of a trace record; "X" stands for any character
\* other than 'R' and 'W'.
Ops == {"R", "W", "X"}

\* Addresses of the trace records: one address in every page 0..MaxVpn, at
\* offset 0, PAGE_SIZE - 1, PAGE_SIZE - 2, ... in the page.
Addrs == {v * PAGE_SIZE + ((PAGE_SIZE - v) % PAGE_SIZE) : v \in 0..MaxVpn}

\* The loop body does not read the address of a record it skips: one address
\* stands for all.
SkipAddrs == {PAGE_SIZE + 1}

\* unsigned int vpn = addr / PAGE_SIZE
VpnOf(addr) == addr \div PAGE_SIZE

(***************************************************************************)
(* TLB.  A TLB is a function from 0..tlb_size-1 to TLBEntry records; the   *)
(* disabled TLB (tlb == NULL) is the function with the empty domain.       *)
(***************************************************************************)
TLBEntry(valid, vpn, frame_index, last_used) ==
    [valid |-> valid, vpn |-> vpn, frame_index |-> frame_index,
     last_used |-> last_used]

\* calloc'ed entries
ZeroTLB(tlb_size) == [i \in 0..(tlb_size - 1) |-> TLBEntry(0, 0, 0, 0)]

\* The index of the first valid entry holding vpn, scanning from i; -1 if none.
RECURSIVE tlb_find(_, _, _, _)
tlb_find(tlb, tlb_size, vpn, i) ==
    IF i >= tlb_size THEN -1
    ELSE IF tlb[i].valid = 1 /\ tlb[i].vpn = vpn THEN i
    ELSE tlb_find(tlb, tlb_size, vpn, i + 1)

\* The index of the first invalid entry, scanning from i; -1 if none.
RECURSIVE tlb_find_empty(_, _, _)
tlb_find_empty(tlb, tlb_size, i) ==
    IF i >= tlb_size THEN -1
    ELSE IF tlb[i].valid = 0 THEN i
    ELSE tlb_find_empty(tlb, tlb_size, i + 1)

\* Mutant of tlb_lru_victim: the scan keeps the most recently used entry.
RECURSIVE tlb_lru_victim_newest(_, _, _, _)
tlb_lru_victim_newest(tlb, tlb_size, victim, i) ==
    IF i >= tlb_size THEN victim
    ELSE IF tlb[i].last_used > tlb[victim].last_used
         THEN tlb_lru_victim_newest(tlb, tlb_size, i, i + 1)
         ELSE tlb_lru_victim_newest(tlb, tlb_size, victim, i + 1)

\* The LRU scan of tlb_insert: victim so far, next index i.
RECURSIVE tlb_lru_victim(_, _, _, _)
tlb_lru_victim(tlb, tlb_size, victim, i) ==
    IF i >= tlb_size THEN victim
    ELSE IF tlb[i].last_used < tlb[victim].last_used
         THEN tlb_lru_victim(tlb, tlb_size, i, i + 1)
         ELSE tlb_lru_victim(tlb, tlb_size, victim, i + 1)

\* tlb_lookup: [hit, frame, tlb]; a hit stamps the entry with tick.
tlb_lookup(tlb, tlb_size, vpn, tick) ==
    IF tlb_size <= 0 THEN [hit |-> FALSE, frame |-> -1, tlb |-> tlb]
    ELSE LET i == tlb_find(tlb, tlb_size, vpn, 0) IN
         IF i # -1
         THEN [hit |-> TRUE, frame |-> tlb[i].frame_index,
               tlb |-> [tlb EXCEPT ![i].last_used = tick]]
         ELSE [hit |-> FALSE, frame |-> -1, tlb |-> tlb]

\* tlb_insert: the TLB after inserting (vpn, frame_index) at tick.
tlb_insert(tlb, tlb_size, vpn, frame_index, tick) ==
    IF tlb_size <= 0 THEN tlb
    ELSE LET present == tlb_find(tlb, tlb_size, vpn, 0)
             empty == tlb_find_empty(tlb, tlb_size, 0)
             victim == tlb_lru_victim(tlb, tlb_size, 0, 1)
         IN IF present # -1
            THEN [tlb EXCEPT ![present].frame_index = frame_index,
                             ![present].last_used = tick]
            ELSE IF empty # -1
            THEN [tlb EXCEPT ![empty] = TLBEntry(1, vpn, frame_index, tick)]
            ELSE [tlb EXCEPT ![victim] = TLBEntry(1, vpn, frame_index, tick)]

\* Mutant of tlb_invalidate_vpn: nothing is invalidated.
tlb_invalidate_vpn_none(tlb, tlb_size, vpn) == tlb

\* tlb_invalidate_vpn: every valid entry holding vpn becomes invalid.
tlb_invalidate_vpn(tlb, tlb_size, vpn) ==
    IF tlb_size <= 0 THEN tlb
    ELSE [i \in 0..(tlb_size - 1) |->
            IF tlb[i].valid = 1 /\ tlb[i].vpn = vpn
            THEN [tlb[i] EXCEPT !.valid = 0]
            ELSE tlb[i]]

(***************************************************************************)
(* Frames.  frames, frame_last_used, ref_bits and dirty are functions on   *)
(* 0..num_frames-1; an empty frame holds -1.                               *)
(***************************************************************************)
\* Mutant of frame_find: the loop stops one frame early (i < num_frames - 1).
RECURSIVE frame_find_short(_, _, _, _)
frame_find_short(frames, num_frames, vpn, i) ==
    IF i >= num_frames - 1 THEN -1
    ELSE IF frames[i] = vpn THEN i
    ELSE frame_find_short(frames, num_frames, vpn, i + 1)

\* The frame-lookup loop: the first frame holding vpn, scanning from i; -1 if
\* none.
RECURSIVE frame_find(_, _, _, _)
frame_find(frames, num_frames, vpn, i) ==
    IF i >= num_frames THEN -1
    ELSE IF frames[i] = vpn THEN i
    ELSE frame_find(frames, num_frames, vpn, i + 1)

\* The empty-frame loop: the first frame holding -1, scanning from i; -1 if
\* none.
RECURSIVE find_empty_frame(_, _, _)
find_empty_frame(frames, num_frames, i) ==
    IF i >= num_frames THEN -1
    ELSE IF frames[i] = -1 THEN i
    ELSE find_empty_frame(frames, num_frames, i + 1)

\* The ALG_LRU loop: victim so far, next index i.
RECURSIVE lru_victim(_, _, _, _)
lru_victim(frame_last_used, num_frames, victim, i) ==
    IF i >= num_frames THEN victim
    ELSE IF frame_last_used[i] < frame_last_used[victim]
         THEN lru_victim(frame_last_used, num_frames, i, i + 1)
         ELSE lru_victim(frame_last_used, num_frames, victim, i + 1)

\* The while (1) loop has no exit but its break.  The model follows it for
\* ScanLimit(num_frames) visits and reports a scan still running then as not
\* done.
ScanLimit(num_frames) == 2 * num_frames + 2

\* Mutant of clock_takes: a frame is taken when its bit is set.
clock_takes_set(ref_bits, clock_hand) == ref_bits[clock_hand] # 0

\* One visit of the ALG_CLOCK loop: TRUE if the frame under the hand is taken.
clock_takes(ref_bits, clock_hand) == ref_bits[clock_hand] = 0

\* Mutant of clock_clear: the reference bit is left set.
clock_clear_not(ref_bits, clock_hand) == ref_bits

\* The reference bits after a visit that does not take the frame.
clock_clear(ref_bits, clock_hand) == [ref_bits EXCEPT ![clock_hand] = 0]

\* The ALG_CLOCK loop after `visits` visits.
RECURSIVE clock_scan(_, _, _, _)
clock_scan(ref_bits, clock_hand, num_frames, visits) ==
    IF visits >= ScanLimit(num_frames)
    THEN [done |-> FALSE, victim |-> -1, clock_hand |-> clock_hand,
          ref_bits |-> ref_bits, visits |-> visits]
    ELSE IF clock_takes(ref_bits, clock_hand)
    THEN [done |-> TRUE, victim |-> clock_hand,
          clock_hand |-> (clock_hand + 1) % num_frames,
          ref_bits |-> ref_bits, visits |-> visits + 1]
    ELSE clock_scan(clock_clear(ref_bits, clock_hand),
                    (clock_hand + 1) % num_frames, num_frames, visits + 1)

(***************************************************************************)
(* The simulator's state as a record: the configuration, the frame arrays, *)
(* the policy pointers, the tick, the TLB and the statistics of main, and  *)
(* what the loop body printed for the last record (outcome, frame), what   *)
(* it evicted and how many frames the CLOCK scan visited.                  *)
(***************************************************************************)
\* The state main has built when the simulation loop starts.
InitState(a, wp, nf, ts) ==
    [alg |-> a, write_policy |-> wp, num_frames |-> nf, tlb_size |-> ts,
     frames |-> [i \in 0..(nf - 1) |-> -1],
     frame_last_used |-> [i \in 0..(nf - 1) |-> 0],
     ref_bits |-> [i \in 0..(nf - 1) |-> 0],
     dirty |-> [i \in 0..(nf - 1) |-> 0],
     fifo_index |-> 0, clock_hand |-> 0, tick |-> 0,
     tlb |-> ZeroTLB(ts),
     reads |-> 0, writes |-> 0, page_faults |-> 0,
     tlb_hits |-> 0, tlb_misses |-> 0, write_backs |-> 0,
     outcome |-> "start", frame |-> -1, evicted |-> -1, visits |-> 0]

\* Mutant of Touch: a write sets the dirty bit under either write policy.
Touch_always_dirty(s, op, i) ==
    [s EXCEPT
       !.frame_last_used = IF s.alg = ALG_LRU
                           THEN [@ EXCEPT ![i] = s.tick] ELSE @,
       !.ref_bits = IF s.alg = ALG_CLOCK THEN [@ EXCEPT ![i] = 1] ELSE @,
       !.dirty = IF op = "W" THEN [@ EXCEPT ![i] = 1] ELSE @]

\* The metadata updates shared by the TLB-hit path, the frame-hit path and the
\* installation of a page: frame i is used by op at the current tick.
Touch(s, op, i) ==
    [s EXCEPT
       !.frame_last_used = IF s.alg = ALG_LRU
                           THEN [@ EXCEPT ![i] = s.tick] ELSE @,
       !.ref_bits = IF s.alg = ALG_CLOCK THEN [@ EXCEPT ![i] = 1] ELSE @,
       !.dirty = IF op = "W" /\ s.write_policy = WP_WRITE_BACK
                 THEN [@ EXCEPT ![i] = 1] ELSE @]

\* Mutant of Count: every record that is not a write counts as a read.
Count_else_read(s, op) ==
    [s EXCEPT !.tick = @ + 1,
              !.reads = IF op # "W" THEN @ + 1 ELSE @,
              !.writes = IF op = "W" THEN @ + 1 ELSE @,
              !.outcome = "skip", !.frame = -1, !.evicted = -1, !.visits = 0]

\* tick++ and the read/write counters; the record's outputs are reset.
Count(s, op) ==
    [s EXCEPT !.tick = @ + 1,
              !.reads = IF op = "R" THEN @ + 1 ELSE @,
              !.writes = IF op = "W" THEN @ + 1 ELSE @,
              !.outcome = "skip", !.frame = -1, !.evicted = -1, !.visits = 0]

\* Mutant of TlbHitPath: a TLB hit does not set the referenced bit.
TlbHitPath_no_ref(s, op, look) ==
    LET t == [s EXCEPT !.tlb = look.tlb, !.tlb_hits = @ + 1,
                       !.outcome = "tlb_hit", !.frame = look.frame]
    IN IF look.frame >= 0 /\ look.frame < s.num_frames
       THEN [Touch(t, op, look.frame) EXCEPT !.ref_bits = s.ref_bits]
       ELSE t

\* Mutant of TlbHitPath: a write that hits the TLB is treated as a read.
TlbHitPath_read_only(s, op, look) ==
    LET t == [s EXCEPT !.tlb = look.tlb, !.tlb_hits = @ + 1,
                       !.outcome = "tlb_hit", !.frame = look.frame]
    IN IF look.frame >= 0 /\ look.frame < s.num_frames
       THEN Touch(t, "R", look.frame)
       ELSE t

\* Mutant of TlbHitPath: a TLB hit leaves the frame metadata alone.
TlbHitPath_no_touch(s, op, look) ==
    [s EXCEPT !.tlb = look.tlb, !.tlb_hits = @ + 1,
              !.outcome = "tlb_hit", !.frame = look.frame]

\* The TLB-hit path; s has its tick and counters updated, look is the lookup.
TlbHitPath(s, op, look) ==
    LET t == [s EXCEPT !.tlb = look.tlb, !.tlb_hits = @ + 1,
                       !.outcome = "tlb_hit", !.frame = look.frame]
    IN IF look.frame >= 0 /\ look.frame < s.num_frames
       THEN Touch(t, op, look.frame)
       ELSE t

\* Mutant of FrameHitPath: a frame hit advances the FIFO pointer.
FrameHitPath_advances(s, op, vpn, hit_frame_index) ==
    LET t == Touch([s EXCEPT !.outcome = "hit", !.frame = hit_frame_index,
                             !.fifo_index = (@ + 1) % s.num_frames],
                   op, hit_frame_index)
    IN [t EXCEPT !.tlb = tlb_insert(@, s.tlb_size, vpn, hit_frame_index, s.tick)]

\* The frame-hit path.
FrameHitPath(s, op, vpn, hit_frame_index) ==
    LET t == Touch([s EXCEPT !.outcome = "hit", !.frame = hit_frame_index],
                   op, hit_frame_index)
    IN [t EXCEPT !.tlb = tlb_insert(@, s.tlb_size, vpn, hit_frame_index, s.tick)]

\* Mutant of ChooseVictim: the FIFO pointer is never advanced.
ChooseVictim_fifo_stuck(s) ==
    LET empty == find_empty_frame(s.frames, s.num_frames, 0)
        keep == [done |-> TRUE, victim |-> empty, fifo_index |-> s.fifo_index,
                 clock_hand |-> s.clock_hand, ref_bits |-> s.ref_bits,
                 visits |-> 0]
    IN IF empty # -1 THEN keep
       ELSE IF s.alg = ALG_FIFO
       THEN [keep EXCEPT !.victim = s.fifo_index]
       ELSE IF s.alg = ALG_LRU
       THEN [keep EXCEPT !.victim = lru_victim(s.frame_last_used,
                                               s.num_frames, 0, 1)]
       ELSE LET c == clock_scan(s.ref_bits, s.clock_hand, s.num_frames, 0)
            IN [keep EXCEPT !.done = c.done, !.victim = c.victim,
                            !.clock_hand = c.clock_hand,
                            !.ref_bits = c.ref_bits, !.visits = c.visits]

\* Mutant of ChooseVictim: the FIFO pointer is used, and advanced, whether or
\* not a frame is empty.
ChooseVictim_fifo_first(s) ==
    LET empty == find_empty_frame(s.frames, s.num_frames, 0)
        keep == [done |-> TRUE, victim |-> empty, fifo_index |-> s.fifo_index,
                 clock_hand |-> s.clock_hand, ref_bits |-> s.ref_bits,
                 visits |-> 0]
    IN IF s.alg = ALG_FIFO
       THEN [keep EXCEPT !.victim = s.fifo_index,
                         !.fifo_index = (s.fifo_index + 1) % s.num_frames]
       ELSE IF empty # -1 THEN keep
       ELSE IF s.alg = ALG_LRU
       THEN [keep EXCEPT !.victim = lru_victim(s.frame_last_used,
                                               s.num_frames, 0, 1)]
       ELSE LET c == clock_scan(s.ref_bits, s.clock_hand, s.num_frames, 0)
            IN [keep EXCEPT !.done = c.done, !.victim = c.victim,
                            !.clock_hand = c.clock_hand,
                            !.ref_bits = c.ref_bits, !.visits = c.visits]

\* Victim selection: [done, victim, fifo_index, clock_hand, ref_bits, visits].
ChooseVictim(s) ==
    LET empty == find_empty_frame(s.frames, s.num_frames, 0)
        keep == [done |-> TRUE, victim |-> empty, fifo_index |-> s.fifo_index,
                 clock_hand |-> s.clock_hand, ref_bits |-> s.ref_bits,
                 visits |-> 0]
    IN IF empty # -1 THEN keep
       ELSE IF s.alg = ALG_FIFO
       THEN [keep EXCEPT !.victim = s.fifo_index,
                         !.fifo_index = (s.fifo_index + 1) % s.num_frames]
       ELSE IF s.alg = ALG_LRU
       THEN [keep EXCEPT !.victim = lru_victim(s.frame_last_used,
                                               s.num_frames, 0, 1)]
       ELSE LET c == clock_scan(s.ref_bits, s.clock_hand, s.num_frames, 0)
            IN [keep EXCEPT !.done = c.done, !.victim = c.victim,
                            !.clock_hand = c.clock_hand,
                            !.ref_bits = c.ref_bits, !.visits = c.visits]

\* Mutant of Evict: the write-back is counted and the dirty bit is left set.
Evict_keeps_dirty(s, victim) ==
    IF s.frames[victim] # -1
    THEN [s EXCEPT
            !.evicted = s.frames[victim],
            !.tlb = tlb_invalidate_vpn(@, s.tlb_size, s.frames[victim]),
            !.write_backs = IF s.write_policy = WP_WRITE_BACK
                               /\ s.dirty[victim] # 0 THEN @ + 1 ELSE @]
    ELSE s

\* Eviction of the page in frame victim: TLB invalidation and write-back.
Evict(s, victim) ==
    IF s.frames[victim] # -1
    THEN [s EXCEPT
            !.evicted = s.frames[victim],
            !.tlb = tlb_invalidate_vpn(@, s.tlb_size, s.frames[victim]),
            !.write_backs = IF s.write_policy = WP_WRITE_BACK
                               /\ s.dirty[victim] # 0 THEN @ + 1 ELSE @,
            !.dirty = IF s.write_policy = WP_WRITE_BACK /\ s.dirty[victim] # 0
                      THEN [@ EXCEPT ![victim] = 0] ELSE @]
    ELSE s

\* Mutant of Install: the TLB entry gets the VPN where the frame belongs.
Install_tlb_wrong_frame(s, op, vpn, victim) ==
    LET t == Touch([s EXCEPT !.frames = [@ EXCEPT ![victim] = vpn],
                             !.frame = victim], op, victim)
    IN [t EXCEPT !.tlb = tlb_insert(@, s.tlb_size, vpn, vpn, s.tick)]

\* Mutant of Install: the new mapping is not inserted into the TLB.
Install_no_tlb_insert(s, op, vpn, victim) ==
    Touch([s EXCEPT !.frames = [@ EXCEPT ![victim] = vpn],
                    !.frame = victim], op, victim)

\* Installation of vpn in frame victim and in the TLB.
Install(s, op, vpn, victim) ==
    LET t == Touch([s EXCEPT !.frames = [@ EXCEPT ![victim] = vpn],
                             !.frame = victim], op, victim)
    IN [t EXCEPT !.tlb = tlb_insert(@, s.tlb_size, vpn, victim, s.tick)]

\* The page-fault path once the victim selection v is made.  A CLOCK scan
\* that does not end leaves the program in its loop: outcome "hang".
Replace(s, op, vpn, v) ==
    LET t == [s EXCEPT !.page_faults = @ + 1, !.outcome = "fault",
                       !.fifo_index = v.fifo_index,
                       !.clock_hand = v.clock_hand,
                       !.ref_bits = v.ref_bits, !.visits = v.visits]
    IN IF v.done
       THEN Install(Evict(t, v.victim), op, vpn, v.victim)
       ELSE [t EXCEPT !.outcome = "hang"]

\* The page-fault path.
PageFaultPath(s, op, vpn) == Replace(s, op, vpn, ChooseVictim(s))

\* The frame lookup and what follows it; hit_frame_index is the lookup's
\* result (-1: no frame holds vpn).
Resolve(s, op, vpn, hit_frame_index) ==
    IF hit_frame_index # -1
    THEN FrameHitPath(s, op, vpn, hit_frame_index)
    ELSE PageFaultPath(s, op, vpn)

\* Mutant of Translate: a disabled TLB counts as a TLB that always misses.
Translate_counts_disabled(c, op, vpn, look) ==
    IF op \notin {"R", "W"} THEN c
    ELSE IF c.tlb_size > 0 /\ look.hit THEN TlbHitPath(c, op, look)
    ELSE Resolve([c EXCEPT !.tlb_misses = @ + 1],
                 op, vpn, frame_find(c.frames, c.num_frames, vpn, 0))

\* The loop body after the counters: c is the counted state, look the TLB
\* lookup of vpn.
Translate(c, op, vpn, look) ==
    IF op \notin {"R", "W"} THEN c
    ELSE IF c.tlb_size > 0 /\ look.hit THEN TlbHitPath(c, op, look)
    ELSE Resolve(IF c.tlb_size > 0 THEN [c EXCEPT !.tlb_misses = @ + 1] ELSE c,
                 op, vpn, frame_find(c.frames, c.num_frames, vpn, 0))

\* One iteration of the simulation loop on the record (op, addr).
Access(s, op, addr) ==
    Translate(Count(s, op), op, VpnOf(addr),
              tlb_lookup(s.tlb, s.tlb_size, VpnOf(addr), s.tick + 1))

(***************************************************************************)
(* The state machine.  The program's variables, then history variables:    *)
(*   installed_at      per frame, the tick at which its page was installed *)
(*   accessed_at       per frame, the tick of the last access to its page  *)
(*                     (installation, frame hit or TLB hit)                *)
(*   wrote             per frame, whether its page was written since then  *)
(*   n_evictions       the evictions so far                                *)
(*   written_evictions the evictions so far of pages written while resident*)
(*   plain             the simulator run on the same trace with the        *)
(*                     records that are neither 'R' nor 'W' left out       *)
(*   bare              the simulator run on the same trace with -t 0       *)
(*   given_tlb         the value main was given with -t, before clamping   *)
(*   call              the last call of a TLB function made on its own     *)
(* and of main's position, pc: "args" while the arguments are parsed,      *)
(* "error" after return 1, "loop" while the trace is read and "done" once  *)
(* the statistics are printed, and of what was printed then, report.       *)
(***************************************************************************)
VARIABLES alg, write_policy, num_frames, tlb_size,
          frames, frame_last_used, ref_bits, dirty,
          fifo_index, clock_hand, tick, tlb,
          reads, writes, page_faults, tlb_hits, tlb_misses, write_backs,
          outcome, frame, evicted, visits,
          installed_at, accessed_at, wrote, n_evictions, written_evictions,
          plain, bare, given_tlb, pc, report, call

config == <<alg, write_policy, num_frames, tlb_size>>
history == <<installed_at, accessed_at, wrote, n_evictions, written_evictions>>
vars == <<alg, write_policy, num_frames, tlb_size,
          frames, frame_last_used, ref_bits, dirty,
          fifo_index, clock_hand, tick, tlb,
          reads, writes, page_faults, tlb_hits, tlb_misses, write_backs,
          outcome, frame, evicted, visits,
          installed_at, accessed_at, wrote, n_evictions, written_evictions,
          plain, bare, given_tlb, pc, report, call>>

\* The current state as a record.
Cur ==
    [alg |-> alg, write_policy |-> write_policy, num_frames |-> num_frames,
     tlb_size |-> tlb_size, frames |-> frames,
     frame_last_used |-> frame_last_used, ref_bits |-> ref_bits,
     dirty |-> dirty, fifo_index |-> fifo_index, clock_hand |-> clock_hand,
     tick |-> tick, tlb |-> tlb, reads |-> reads, writes |-> writes,
     page_faults |-> page_faults, tlb_hits |-> tlb_hits,
     tlb_misses |-> tlb_misses, write_backs |-> write_backs,
     outcome |-> outcome, frame |-> frame, evicted |-> evicted,
     visits |-> visits]

\* The next state of the arrays, pointers and counters is the record r.
LoadState(r) ==
    /\ frames' = r.frames
    /\ frame_last_used' = r.frame_last_used
    /\ ref_bits' = r.ref_bits
    /\ dirty' = r.dirty
    /\ fifo_index' = r.fifo_index
    /\ clock_hand' = r.clock_hand
    /\ tick' = r.tick
    /\ tlb' = r.tlb
    /\ reads' = r.reads
    /\ writes' = r.writes
    /\ page_faults' = r.page_faults
    /\ tlb_hits' = r.tlb_hits
    /\ tlb_misses' = r.tlb_misses
    /\ write_backs' = r.write_backs
    /\ outcome' = r.outcome
    /\ frame' = r.frame
    /\ evicted' = r.evicted
    /\ visits' = r.visits

\* The next state is the record r: the loop changes no option.
Load(r) == LoadState(r) /\ UNCHANGED <<config, given_tlb>>

\* The history variables after the record (op, addr) took the state to r.
Record(r, op, addr) ==
    LET used == r.outcome \in {"tlb_hit", "hit", "fault"}
                  /\ r.frame \in 0..(num_frames - 1)
    IN /\ installed_at' = IF r.outcome = "fault"
                          THEN [installed_at EXCEPT ![r.frame] = r.tick]
                          ELSE installed_at
       /\ accessed_at' = IF used
                         THEN [accessed_at EXCEPT ![r.frame] = r.tick]
                         ELSE accessed_at
       /\ wrote' = IF r.outcome = "fault"
                   THEN [wrote EXCEPT ![r.frame] = (op = "W")]
                   ELSE IF used /\ op = "W"
                   THEN [wrote EXCEPT ![r.frame] = TRUE]
                   ELSE wrote
       /\ n_evictions' = IF r.evicted # -1 THEN n_evictions + 1
                         ELSE n_evictions
       /\ written_evictions' = IF r.evicted # -1 /\ wrote[r.frame]
                               THEN written_evictions + 1
                               ELSE written_evictions

\* fscanf returned 2: the record (op, addr) is read and processed.
Process(op, addr) ==
    /\ \E r \in {Access(Cur, op, addr)} : Load(r) /\ Record(r, op, addr)
    /\ UNCHANGED <<pc, report, call>>

\* The loop reads another record: the trace is not exhausted and the program
\* is not inside a scan that never ends.
Reading == pc = "loop" /\ tick < MaxTick /\ outcome # "hang"

TlbHits(vpn) == tlb_size > 0 /\ tlb_find(tlb, tlb_size, vpn, 0) # -1
Resident(vpn) == frame_find(frames, num_frames, vpn, 0) # -1
HasEmptyFrame == find_empty_frame(frames, num_frames, 0) # -1

\* The state when the simulation loop starts, for the options in config.
Fresh ==
    /\ LET s == InitState(alg, write_policy, num_frames, tlb_size)
       IN /\ frames = s.frames
          /\ frame_last_used = s.frame_last_used
          /\ ref_bits = s.ref_bits
          /\ dirty = s.dirty
          /\ fifo_index = s.fifo_index
          /\ clock_hand = s.clock_hand
          /\ tick = s.tick
          /\ tlb = s.tlb
          /\ reads = s.reads
          /\ writes = s.writes
          /\ page_faults = s.page_faults
          /\ tlb_hits = s.tlb_hits
          /\ tlb_misses = s.tlb_misses
          /\ write_backs = s.write_backs
          /\ outcome = s.outcome
          /\ frame = s.frame
          /\ evicted = s.evicted
          /\ visits = s.visits
          /\ plain = s
    /\ bare = InitState(alg, write_policy, num_frames, 0)
    /\ given_tlb = tlb_size
    /\ pc = "loop"
    /\ report = << >>
    /\ call = << >>
    /\ installed_at = [i \in 0..(num_frames - 1) |-> 0]
    /\ accessed_at = [i \in 0..(num_frames - 1) |-> 0]
    /\ wrote = [i \in 0..(num_frames - 1) |-> FALSE]
    /\ n_evictions = 0
    /\ written_evictions = 0

Init ==
    /\ alg \in Algorithms
    /\ write_policy \in WritePolicies
    /\ num_frames \in 1..MaxFrames
    /\ tlb_size \in 0..MaxTlb
    /\ Fresh

\* A record whose operation is neither 'R' nor 'W'.
SkipRecord ==
    \E op \in Ops \ {"R", "W"}, addr \in SkipAddrs :
        Reading /\ Process(op, addr) /\ UNCHANGED <<plain, bare>>

\* A counted record whose VPN has a valid TLB entry.
TlbHitRecord ==
    \E op \in {"R", "W"}, addr \in Addrs :
        Reading /\ TlbHits(VpnOf(addr)) /\ Process(op, addr) /\ UNCHANGED <<plain, bare>>

\* A counted record that misses the TLB (or runs without one) and finds its
\* page in a frame.
FrameHitRecord ==
    \E op \in {"R", "W"}, addr \in Addrs :
        /\ Reading /\ ~TlbHits(VpnOf(addr)) /\ Resident(VpnOf(addr))
        /\ Process(op, addr) /\ UNCHANGED <<plain, bare>>

\* A page fault while some frame is empty.
FillRecord ==
    \E op \in {"R", "W"}, addr \in Addrs :
        /\ Reading /\ ~TlbHits(VpnOf(addr)) /\ ~Resident(VpnOf(addr))
        /\ HasEmptyFrame
        /\ Process(op, addr) /\ UNCHANGED <<plain, bare>>

\* A page fault while every frame is occupied.
EvictRecord ==
    \E op \in {"R", "W"}, addr \in Addrs :
        /\ Reading /\ ~TlbHits(VpnOf(addr)) /\ ~Resident(VpnOf(addr))
        /\ ~HasEmptyFrame
        /\ Process(op, addr) /\ UNCHANGED <<plain, bare>>

Next ==
    \/ SkipRecord
    \/ TlbHitRecord
    \/ FrameHitRecord
    \/ FillRecord
    \/ EvictRecord

Spec == Init /\ [][Next]_vars

(***************************************************************************)
(* The final statistics.  A double is modelled by the exact fraction       *)
(* <<numerator, denominator>> in lowest terms (rounding is not modelled);  *)
(* a quotient whose divisor is 0 keeps the denominator 0.                  *)
(***************************************************************************)
RECURSIVE GCD(_, _)
GCD(a, b) == IF b = 0 THEN a ELSE GCD(b, a % b)

Abs(n) == IF n < 0 THEN 0 - n ELSE n

\* n / d with the common factor g taken out.
Lowest_terms(n, d, g) == <<n \div g, d \div g>>

\* (double)n / (double)d
Div(n, d) ==
    IF d = 0 THEN <<n, 0>>
    ELSE IF n = 0 THEN <<0, 1>>
    ELSE Lowest_terms(n, d, GCD(Abs(n), d))

Add(x, y) == Div(x[1] * y[2] + y[1] * x[2], x[2] * y[2])
Sub(x, y) == Div(x[1] * y[2] - y[1] * x[2], x[2] * y[2])
Mul(x, y) == Div(x[1] * y[1], x[2] * y[2])

TLB_LAT == <<1, 1>>
MEM_LAT == <<100, 1>>
DISK_LAT == <<10000000, 1>>

\* The memory hit rate and page fault rate lines.
MemoryRates(page_faults_, total_accesses) ==
    [fault_rate |-> Div(page_faults_, total_accesses),
     hit_rate |-> Sub(<<1, 1>>, Div(page_faults_, total_accesses))]

\* base and amat from the two rates.
Latency(tlb_hit_rate, page_fault_rate, base) ==
    [tlb_hit_rate |-> tlb_hit_rate,
     page_fault_rate |-> page_fault_rate,
     base |-> base,
     amat |-> Add(base, Mul(page_fault_rate, DISK_LAT))]

Base(tlb_hit_rate) ==
    Add(Mul(tlb_hit_rate, TLB_LAT), Mul(Sub(<<1, 1>>, tlb_hit_rate), MEM_LAT))

Rates(tlb_hit_rate, page_fault_rate) ==
    Latency(tlb_hit_rate, page_fault_rate, Base(tlb_hit_rate))

\* The rates of the TLB block and the AMAT.
Amat(tlb_hits_, tlb_total, page_faults_, total_accesses) ==
    Rates(Div(tlb_hits_, tlb_total),
          IF total_accesses > 0 THEN Div(page_faults_, total_accesses)
          ELSE <<0, 1>>)

\* Mutant of TlbRates: the rates are computed for an empty run as well.
TlbRates_unguarded(s) ==
    <<Amat(s.tlb_hits, s.tlb_hits + s.tlb_misses, s.page_faults,
           s.reads + s.writes)>>

\* What the TLB block computes: nothing when no lookup was counted.
TlbRates(s) ==
    IF s.tlb_hits + s.tlb_misses > 0
    THEN <<Amat(s.tlb_hits, s.tlb_hits + s.tlb_misses, s.page_faults,
                s.reads + s.writes)>>
    ELSE << >>

\* The statistics main prints after the loop.  memory, tlb and tlb[1].rates
\* are empty when their lines are not printed.
FinalStats(s) ==
    [total_accesses |-> s.reads + s.writes,
     page_faults |-> s.page_faults,
     memory |-> IF s.reads + s.writes > 0
                THEN <<MemoryRates(s.page_faults, s.reads + s.writes)>>
                ELSE << >>,
     tlb |-> IF s.tlb_size > 0
             THEN <<[tlb_total |-> s.tlb_hits + s.tlb_misses,
                     tlb_hits |-> s.tlb_hits, tlb_misses |-> s.tlb_misses,
                     rates |-> TlbRates(s)]>>
             ELSE << >>,
     write_backs |-> s.write_backs]

\* fscanf did not return 2: the loop ends, the statistics are printed and
\* the arrays and the TLB are freed; the histories of the frames end with
\* the frames.
Report ==
    /\ pc = "loop" /\ outcome # "hang"
    /\ pc' = "done"
    /\ report' = FinalStats(Cur)
    /\ frames' = << >>
    /\ frame_last_used' = << >>
    /\ ref_bits' = << >>
    /\ dirty' = << >>
    /\ tlb' = << >>
    /\ installed_at' = << >>
    /\ accessed_at' = << >>
    /\ wrote' = << >>
    /\ UNCHANGED <<config, given_tlb, n_evictions, written_evictions,
                   plain, bare, call>>
    /\ UNCHANGED <<fifo_index, clock_hand, tick, reads, writes, page_faults,
                   tlb_hits, tlb_misses, write_backs, outcome, frame,
                   evicted, visits>>

NextReport == Next \/ Report

SpecReport == Init /\ [][NextReport]_vars

(***************************************************************************)
(* The same machine beside `plain`, which is given the counted records     *)
(* only.                                                                   *)
(***************************************************************************)
\* A counted record is processed by both runs.
CountedBoth ==
    \E op \in {"R", "W"}, addr \in Addrs :
        /\ Reading /\ Process(op, addr) /\ plain' = Access(plain, op, addr)
        /\ UNCHANGED bare

\* A record that is neither 'R' nor 'W' is in the trace of the machine only.
SkippedOnly ==
    \E op \in Ops \ {"R", "W"}, addr \in SkipAddrs :
        Reading /\ Process(op, addr) /\ UNCHANGED <<plain, bare>>

NextPlain == CountedBoth \/ SkippedOnly

SpecPlain == Init /\ [][NextPlain]_vars

(***************************************************************************)
(* The same machine beside `bare`, which reads the same records with the   *)
(* TLB disabled.                                                           *)
(***************************************************************************)
\* The records of a trace.
Records == ({"R", "W"} \X Addrs) \cup ((Ops \ {"R", "W"}) \X SkipAddrs)

\* A record is processed by both runs.
BareRecord ==
    \E rec \in Records :
        /\ Reading /\ Process(rec[1], rec[2])
        /\ bare' = Access(bare, rec[1], rec[2])
        /\ UNCHANGED plain

NextBare == BareRecord

SpecBare == Init /\ [][NextBare]_vars

(***************************************************************************)
(* main from its first line: the options are parsed, then the state is     *)
(* built and the loop runs.  The option lists are the well-formed ones     *)
(* that give -a, -f, -t and a write policy in any order, and a trace file  *)
(* that opens.                                                             *)
(***************************************************************************)
DEFAULT_NUM_FRAMES == 3

\* The values -f and -t may be given.
FrameArgs == (-1)..MaxFrames
TlbArgs == (-1)..MaxTlb

\* Mutant of Rejected: only a negative number of frames is refused.
Rejected_negative(f) == f < 0

\* The test on the value of -f.
Rejected(f) == f <= 0


\* The value tlb_size has after -t t.
ClampTlb(t) == IF t < 0 THEN 0 ELSE t

\* Before main has built anything: no array, no TLB.
NoState ==
    [InitState(ALG_FIFO, WP_WRITE_THROUGH, 0, 0)
       EXCEPT !.num_frames = DEFAULT_NUM_FRAMES]

InitArgs ==
    /\ pc = "args"
    /\ alg = ALG_FIFO
    /\ write_policy = WP_WRITE_THROUGH
    /\ tlb_size = 0
    /\ num_frames = DEFAULT_NUM_FRAMES
    /\ given_tlb = 0
    /\ frames = NoState.frames
    /\ frame_last_used = NoState.frame_last_used
    /\ ref_bits = NoState.ref_bits
    /\ dirty = NoState.dirty
    /\ fifo_index = 0
    /\ clock_hand = 0
    /\ tick = 0
    /\ tlb = NoState.tlb
    /\ reads = 0
    /\ writes = 0
    /\ page_faults = 0
    /\ tlb_hits = 0
    /\ tlb_misses = 0
    /\ write_backs = 0
    /\ outcome = "start"
    /\ frame = -1
    /\ evicted = -1
    /\ visits = 0
    /\ installed_at = << >>
    /\ accessed_at = << >>
    /\ wrote = << >>
    /\ n_evictions = 0
    /\ written_evictions = 0
    /\ plain = NoState
    /\ bare = NoState
    /\ report = << >>
    /\ call = << >>

\* -f f with f refused: main returns 1 at once.  The options before -f have
\* been stored, nothing else has happened.
RejectArgs ==
    /\ pc = "args"
    /\ \E a \in Algorithms, wp \in WritePolicies,
          f \in FrameArgs, t \in TlbArgs :
        /\ Rejected(f)
        /\ alg' = a
        /\ write_policy' = wp
        /\ tlb_size' = ClampTlb(t)
        /\ given_tlb' = t
        /\ num_frames' = f
        /\ pc' = "error"
        /\ UNCHANGED <<history, plain, bare, report, call>>
        /\ UNCHANGED <<frames, frame_last_used, ref_bits, dirty, fifo_index,
                       clock_hand, tick, tlb, reads, writes, page_faults,
                       tlb_hits, tlb_misses, write_backs, outcome, frame,
                       evicted, visits>>

\* Every option is accepted: the arrays and the TLB are built and the loop
\* starts.
AcceptArgs ==
    /\ pc = "args"
    /\ \E a \in Algorithms, wp \in WritePolicies,
          f \in FrameArgs, t \in TlbArgs :
        /\ ~Rejected(f)
        /\ alg' = a
        /\ write_policy' = wp
        /\ tlb_size' = ClampTlb(t)
        /\ given_tlb' = t
        /\ num_frames' = f
        /\ pc' = "loop"
        /\ LoadState(InitState(a, wp, f, ClampTlb(t)))
        /\ plain' = InitState(a, wp, f, ClampTlb(t))
        /\ bare' = InitState(a, wp, f, 0)
        /\ installed_at' = [i \in 0..(f - 1) |-> 0]
        /\ accessed_at' = [i \in 0..(f - 1) |-> 0]
        /\ wrote' = [i \in 0..(f - 1) |-> FALSE]
        /\ UNCHANGED <<n_evictions, written_evictions, report, call>>

NextConfig == RejectArgs \/ AcceptArgs \/ BareRecord

SpecConfig == InitArgs /\ [][NextConfig]_vars

(***************************************************************************)
(* The TLB functions on their own: tlb_lookup, tlb_insert and              *)
(* tlb_invalidate_vpn called in any order with any arguments on a TLB that *)
(* starts zeroed.  A lookup or an insert is made at a new tick.            *)
(***************************************************************************)
InitTlb ==
    /\ alg = ALG_FIFO
    /\ write_policy = WP_WRITE_THROUGH
    /\ num_frames = MaxFrames
    /\ tlb_size \in 1..MaxTlb
    /\ Fresh

\* What a call on the TLB leaves alone.
beside_tlb ==
    <<config, given_tlb, history, plain, bare, pc, report,
      frames, frame_last_used, ref_bits, dirty, fifo_index, clock_hand,
      reads, writes, page_faults, tlb_hits, tlb_misses, write_backs,
      outcome, frame, evicted, visits>>

TlbLookupCall ==
    \E vpn \in 0..MaxVpn :
        /\ tick < MaxTick
        /\ tick' = tick + 1
        /\ tlb' = tlb_lookup(tlb, tlb_size, vpn, tick + 1).tlb
        /\ call' = <<"tlb_lookup", vpn,
                     tlb_lookup(tlb, tlb_size, vpn, tick + 1).frame>>
        /\ UNCHANGED beside_tlb

TlbInsertCall ==
    \E vpn \in 0..MaxVpn, frame_index \in 0..(num_frames - 1) :
        /\ tick < MaxTick
        /\ tick' = tick + 1
        /\ tlb' = tlb_insert(tlb, tlb_size, vpn, frame_index, tick + 1)
        /\ call' = <<"tlb_insert", vpn, frame_index>>
        /\ UNCHANGED beside_tlb

TlbInvalidateCall ==
    \E vpn \in 0..MaxVpn :
        /\ tlb' = tlb_invalidate_vpn(tlb, tlb_size, vpn)
        /\ call' = <<"tlb_invalidate_vpn", vpn, -1>>
        /\ UNCHANGED <<tick, beside_tlb>>

NextTlb == TlbLookupCall \/ TlbInsertCall \/ TlbInvalidateCall

SpecTlb == InitTlb /\ [][NextTlb]_vars

(***************************************************************************)
(* Properties.                                                             *)
(***************************************************************************)
FrameIds == 0..(num_frames - 1)
TlbIds == 0..(tlb_size - 1)
Full == \A i \in FrameIds : frames[i] # -1

\* The step processed a record and evicted a page.
Evicting == evicted' # -1
\* The step processed a record that faulted.
Faulting == outcome' = "fault"

\* A run of the simulator from state s over the records recs.
RECURSIVE Run(_, _)
Run(s, recs) ==
    IF recs = <<>> THEN s
    ELSE Run(Access(s, Head(recs)[1], Head(recs)[2]), Tail(recs))

\* C1 (capacity invariant): after every processed record no two frames hold
\* the same VPN, hence at most num_frames distinct VPNs are resident.
C1_Capacity ==
    /\ \A i, j \in FrameIds :
          (i # j /\ frames[i] # -1) => frames[i] # frames[j]
    /\ Cardinality({frames[i] : i \in FrameIds} \ {-1}) <= num_frames

\* C1's case: two frames are full, a page was evicted earlier and the last
\* record hit a frame.
C1_Witness ==
    /\ num_frames = 2 /\ Full /\ n_evictions >= 1
    /\ outcome = "hit"

\* C2 (TLB consistency): after every processed record every valid TLB entry
\* (vpn, frame_index) names a frame that holds vpn, and the VPN evicted by the
\* record has no valid TLB entry.
C2_TlbConsistent ==
    /\ \A i \in TlbIds :
          tlb[i].valid = 1 =>
             /\ tlb[i].frame_index \in FrameIds
             /\ frames[tlb[i].frame_index] = tlb[i].vpn
    /\ evicted # -1 =>
          \A i \in TlbIds : ~(tlb[i].valid = 1 /\ tlb[i].vpn = evicted)

\* C2's case: one frame and a TLB of two entries, so that the resident page
\* always has a valid entry; the record evicted that page, and the only valid
\* entry left is the new page's.
C2_Witness ==
    /\ num_frames = 1 /\ tlb_size = 2 /\ evicted # -1
    /\ tlb[0].valid = 1 /\ tlb[0].vpn = frames[0] /\ tlb[0].vpn # evicted
    /\ tlb[1].valid = 0

\* The end-to-end scenario of C3: FIFO, 2 frames, reads of VPN 0, 1, 2, 0.
C3_Scenario ==
    \A wp \in WritePolicies, ts \in 0..MaxTlb :
       LET r == Run(InitState(ALG_FIFO, wp, 2, ts),
                    << <<"R", 0>>, <<"R", PAGE_SIZE>>,
                       <<"R", 2 * PAGE_SIZE>>, <<"R", 0>> >>)
       IN /\ r.page_faults = 4
          /\ r.tlb_hits = 0
          /\ r.reads + r.writes = 4
          /\ r.frames = [i \in 0..1 |-> IF i = 0 THEN 2 ELSE 0]
          /\ r.evicted = 1

\* C3 (FIFO order): under FIFO every eviction takes the page installed
\* earliest; the k-th eviction takes frame (k-1) mod num_frames; the FIFO
\* pointer moves on evictions only, by one; and the trace VPN 0, 1, 2, 0 on 2
\* frames gives 4 faults and no hit.
C3_FifoOrder ==
    [][alg = ALG_FIFO =>
          /\ Evicting =>
               /\ frame' = n_evictions % num_frames
               /\ evicted' = frames[frame']
               /\ \A j \in FrameIds \ {frame'} :
                     installed_at[frame'] < installed_at[j]
               /\ fifo_index' = (fifo_index + 1) % num_frames
          /\ ~Evicting => fifo_index' = fifo_index
          /\ tick = 0 => C3_Scenario]_vars

\* C3's case: FIFO with 2 frames; records 1 and 2 fill the frames, record 3
\* hits the page of frame 0 and record 4 evicts that very page, the one
\* installed first, although frame 1 was last accessed at tick 2.
C3_Witness ==
    /\ alg = ALG_FIFO /\ num_frames = 2 /\ evicted # -1
    /\ tick = 4 /\ reads + writes = 4 /\ page_faults = 3
    /\ frame = 0 /\ accessed_at[1] = 2

\* C4 (LRU recency): under LRU with all frames occupied a page fault evicts
\* the resident page whose last access (installation, frame hit or TLB hit)
\* is the oldest.
C4_LruRecency ==
    [][(alg = ALG_LRU /\ Faulting /\ Full) =>
          /\ evicted' = frames[frame']
          /\ evicted' # -1
          /\ \A j \in FrameIds \ {frame'} :
                accessed_at[frame'] < accessed_at[j]]_vars

\* C4's case: capacity 2, A then B installed, A touched through the TLB, and
\* the next fault evicts B from frame 1.
C4_Witness ==
    /\ alg = ALG_LRU /\ num_frames = 2 /\ n_evictions = 1 /\ evicted # -1
    /\ frame = 1 /\ tlb_hits = 1 /\ tick = 4

\* C5 (CLOCK termination): the victim scan ends, after at most 2 x num_frames
\* visits.
C5_ClockTerminates ==
    /\ outcome # "hang"
    /\ visits <= 2 * num_frames

\* C5's case: a CLOCK scan that needed 2 x num_frames visits.
C5_Witness ==
    /\ alg = ALG_CLOCK /\ evicted # -1 /\ visits = 2 * num_frames

\* The fault of the step finds every frame occupied and referenced.
AllReferenced == Full /\ \A i \in FrameIds : ref_bits[i] = 1

\* C6 as stated (CLOCK all-referenced sweep): a fault on a full cache whose
\* reference bits are all set selects its victim within num_frames visits.
C6_OneSweep ==
    [][(alg = ALG_CLOCK /\ Faulting /\ AllReferenced) =>
          visits' <= num_frames]_vars

\* C6 as amended: such a fault clears every bit once and then takes the
\* frame the hand started on, after num_frames + 1 visits; the hand ends one
\* past the victim and only the new page is referenced.
C6_SweepPlusOne ==
    [][(alg = ALG_CLOCK /\ Faulting /\ AllReferenced) =>
          /\ visits' = num_frames + 1
          /\ frame' = clock_hand
          /\ evicted' = frames[clock_hand]
          /\ clock_hand' = (clock_hand + 1) % num_frames
          /\ \A i \in FrameIds : ref_bits'[i] = IF i = frame' THEN 1 ELSE 0]_vars

\* C6's case: CLOCK, 2 frames, the first eviction: both bits were set, 3
\* frames were visited and frame 1's bit is clear.
C6_Witness ==
    /\ alg = ALG_CLOCK /\ num_frames = 2 /\ n_evictions = 1 /\ evicted # -1
    /\ visits = 3 /\ frame = 0 /\ ref_bits[1] = 0 /\ ref_bits[0] = 1

\* The step processed a write.
Writing == writes' = writes + 1

\* C7 (write-back accounting): under write-back, a step adds 1 to the
\* write-back counter exactly when it evicts a page from a dirty frame;
\* after a fault the frame's dirty bit says whether the faulting operation
\* is a write; and the counter equals the number of evictions of pages
\* written while resident.
C7_WriteBackAccounting ==
    [][write_policy = WP_WRITE_BACK =>
          /\ write_backs' = write_backs
                + (IF Evicting /\ dirty[frame'] = 1 THEN 1 ELSE 0)
          /\ Faulting => dirty'[frame'] = (IF Writing THEN 1 ELSE 0)
          /\ write_backs' = written_evictions']_vars

\* C7's case: write-back; the record evicted a dirty page, counted it and
\* installed the new page clean, after an earlier eviction of a clean page.
C7_Witness ==
    /\ write_policy = WP_WRITE_BACK /\ evicted # -1
    /\ write_backs = 1 /\ n_evictions = 2 /\ dirty[frame] = 0

\* C8 (write-through): the write-back counter stays 0 and no dirty bit is
\* ever set.
C8_WriteThrough ==
    write_policy = WP_WRITE_THROUGH =>
       /\ write_backs = 0
       /\ \A i \in FrameIds : dirty[i] = 0

\* C8's case: write-through; a page written while resident was evicted and
\* the resident page of the accessed frame has been written too.
C8_Witness ==
    /\ write_policy = WP_WRITE_THROUGH
    /\ written_evictions >= 1 /\ frame # -1 /\ wrote[frame]
    /\ tlb_hits >= 1

\* C9 (empty-slot first): a fault while some frame is empty installs the
\* page in the lowest-index empty frame and evicts nothing, moves neither
\* pointer, invalidates no TLB entry and counts no write-back; the first
\* num_frames faults fill frames 0..num_frames-1 in order; and an occupied
\* frame never becomes empty.
C9_EmptySlotFirst ==
    [][/\ (Faulting /\ ~Full) =>
            /\ frames[frame'] = -1
            /\ \A j \in 0..(frame' - 1) : frames[j] # -1
            /\ \A j \in FrameIds \ {frame'} : frames'[j] = frames[j]
            /\ frames'[frame'] # -1
            /\ evicted' = -1
            /\ n_evictions' = n_evictions
            /\ fifo_index' = fifo_index
            /\ clock_hand' = clock_hand
            /\ write_backs' = write_backs
            /\ \A i \in TlbIds : tlb[i].valid = 1 => tlb'[i].valid = 1
       /\ (Faulting /\ page_faults < num_frames) => frame' = page_faults
       /\ \A i \in FrameIds : frames[i] # -1 => frames'[i] # -1]_vars

\* C9's case: 2 frames; the second fault came after a hit and a skipped
\* record and filled frame 1.
C9_Witness ==
    /\ num_frames = 2 /\ outcome = "fault" /\ frame = 1 /\ evicted = -1
    /\ page_faults = 2 /\ tick = 4 /\ reads + writes = 3

\* The next state agrees with the simulator state s on everything that holds
\* no tick: frames, bits, pointers, counters and the TLB's mappings.
AgreesUntimed(s) ==
    /\ frames' = s.frames
    /\ ref_bits' = s.ref_bits
    /\ dirty' = s.dirty
    /\ fifo_index' = s.fifo_index
    /\ clock_hand' = s.clock_hand
    /\ reads' = s.reads
    /\ writes' = s.writes
    /\ page_faults' = s.page_faults
    /\ tlb_hits' = s.tlb_hits
    /\ tlb_misses' = s.tlb_misses
    /\ write_backs' = s.write_backs
    /\ \A i \in TlbIds :
          /\ tlb'[i].valid = s.tlb[i].valid
          /\ tlb'[i].vpn = s.tlb[i].vpn
          /\ tlb'[i].frame_index = s.tlb[i].frame_index

\* C10 (skipped records): a record that is neither 'R' nor 'W' changes
\* nothing but the tick; and the run of a trace and the run of the same
\* trace without such records agree, record by record, on the outcome, the
\* frame used and the page evicted, and on every counter and all frame,
\* policy and TLB contents but the tick values.
C10_SkippedRecords ==
    [][/\ (reads' = reads /\ writes' = writes) =>
            /\ tick' = tick + 1
            /\ outcome' = "skip"
            /\ UNCHANGED <<frames, frame_last_used, ref_bits, dirty, tlb>>
            /\ UNCHANGED <<fifo_index, clock_hand>>
            /\ UNCHANGED <<page_faults, tlb_hits, tlb_misses, write_backs>>
       /\ (reads' # reads \/ writes' # writes) =>
            /\ outcome' = plain'.outcome
            /\ frame' = plain'.frame
            /\ evicted' = plain'.evicted
       /\ AgreesUntimed(plain')]_vars

\* C10's case: LRU, 2 frames; a record was skipped between the two fills, so
\* the two runs' ticks and last-used values differ, and the last record then
\* evicted a page chosen by those values.
C10_Witness ==
    /\ alg = ALG_LRU /\ num_frames = 2 /\ evicted # -1
    /\ tick = 4 /\ plain.tick = 3 /\ plain.evicted = evicted
    /\ installed_at[1] = 3 /\ plain.frame_last_used[1] = 2


\* C11 (TLB accounting): after every processed record, with the TLB enabled
\* every counted access is one TLB hit or one TLB miss, tlb_hits + tlb_misses
\* = reads + writes; with the TLB disabled both counters are 0.
C11_TlbAccounting ==
    /\ tlb_size > 0 => tlb_hits + tlb_misses = reads + writes
    /\ tlb_size = 0 => tlb_hits = 0 /\ tlb_misses = 0
    /\ tlb_hits >= 0 /\ tlb_misses >= 0

\* C11's case: TLB enabled; hits and misses were counted and a record was
\* skipped.
C11_Witness ==
    /\ tlb_size > 0 /\ tlb_hits >= 1 /\ tlb_misses >= 2
    /\ tick > reads + writes

\* The rates the report holds.
ReportedRates ==
    {report.memory[i].fault_rate : i \in DOMAIN report.memory}
    \cup {report.memory[i].hit_rate : i \in DOMAIN report.memory}
    \cup UNION {UNION {{report.tlb[i].rates[j].tlb_hit_rate,
                        report.tlb[i].rates[j].page_fault_rate,
                        report.tlb[i].rates[j].base,
                        report.tlb[i].rates[j].amat} :
                       j \in DOMAIN report.tlb[i].rates} :
                i \in DOMAIN report.tlb}

\* C13 (AMAT): with the TLB enabled and tlb_hits + tlb_misses > 0 the
\* reported AMAT is hitRate * 1 + (1 - hitRate) * 100 + faultRate * 10000000
\* with hitRate = tlb_hits / (tlb_hits + tlb_misses) and faultRate =
\* page_faults / (reads + writes); for 8 hits, 2 misses, 1 fault and 10
\* accesses it is 1000020.8; no reported rate has a zero denominator, and no
\* rate is reported for an empty denominator.
C13_Amat ==
    pc = "done" =>
         /\ Amat(8, 8 + 2, 1, 10).amat = <<5000104, 5>>
         /\ \A x \in ReportedRates : x[2] # 0
         /\ reads + writes = 0 => report.memory = << >>
         /\ tlb_size = 0 => report.tlb = << >>
         /\ (tlb_size > 0 /\ tlb_hits + tlb_misses = 0) =>
               (Len(report.tlb) = 1 /\ report.tlb[1].rates = << >>)
         /\ (tlb_size > 0 /\ tlb_hits + tlb_misses > 0) =>
               /\ reads + writes > 0
               /\ Len(report.tlb) = 1 /\ Len(report.tlb[1].rates) = 1
               /\ report.tlb[1].rates[1].amat =
                    Div((tlb_hits * 1 + tlb_misses * 100) * (reads + writes)
                          + page_faults * 10000000 * (tlb_hits + tlb_misses),
                        (tlb_hits + tlb_misses) * (reads + writes))

\* C13's case: the statistics of a run with one TLB hit, two TLB misses and
\* two faults in three accesses are printed: AMAT = 20000201/3.
C13_Witness ==
    /\ pc = "done" /\ tlb_size > 0
    /\ tlb_hits = 1 /\ tlb_misses = 2 /\ page_faults = 2
    /\ reads + writes = 3
    /\ report.tlb[1].rates[1].amat = <<20000201, 3>>

\* C14 (configuration rejection): main stops with an error exactly when the
\* number of frames given is <= 0, and then no frame array and no TLB exist
\* and no record was processed; a negative TLB size is no error: tlb_size is
\* 0, no TLB is built, and the run is the run with -t 0.
C14_ConfigRejection ==
    /\ pc = "error" <=> (pc # "args" /\ num_frames <= 0)
    /\ pc = "error" =>
         /\ Cur = [NoState EXCEPT !.alg = alg,
                                  !.write_policy = write_policy,
                                  !.tlb_size = tlb_size,
                                  !.num_frames = num_frames]
         /\ frames = << >> /\ tlb = << >> /\ tick = 0
    /\ pc = "loop" =>
         /\ num_frames > 0
         /\ DOMAIN frames = 0..(num_frames - 1)
         /\ tlb_size = (IF given_tlb < 0 THEN 0 ELSE given_tlb)
         /\ given_tlb < 0 => (tlb = << >> /\ Cur = bare)

\* C14's case: -t -1 then -f 0 were given; the TLB size was clamped and the
\* frame count refused.
C14_Witness ==
    /\ pc = "error" /\ num_frames = 0
    /\ given_tlb < 0 /\ tlb_size = 0
    /\ frames = << >>

\* The valid entries of the TLB, and those of vpn.
ValidTlb == {i \in TlbIds : tlb[i].valid = 1}
ValidFor(vpn) == {i \in ValidTlb : tlb[i].vpn = vpn}
\* The lowest index of a non-empty set of indices.
Lowest(S) == CHOOSE i \in S : \A j \in S : i <= j
\* The entries least recently touched.
Oldest == {i \in TlbIds : \A j \in TlbIds : tlb[i].last_used <= tlb[j].last_used}
\* The entries the step changed.
ChangedTlb == {i \in TlbIds : tlb'[i] # tlb[i]}

\* C15 (TLB replacement): tlb_insert of a VPN that has a valid entry updates
\* that entry in place; otherwise it fills the lowest invalid slot; only when
\* every slot is valid does it overwrite one, the lowest entry with the
\* smallest last_used; an entry's last_used is the tick of the last lookup
\* hit or insert on it; no two valid entries ever share a VPN.
C15_TlbLru ==
    [][/\ \A i, j \in TlbIds :
             (i # j /\ tlb'[i].valid = 1 /\ tlb'[j].valid = 1)
                => tlb'[i].vpn # tlb'[j].vpn
       /\ call'[1] = "tlb_insert" =>
            /\ ValidFor(call'[2]) # {} =>
                 /\ ChangedTlb = ValidFor(call'[2])
                 /\ \A i \in ChangedTlb :
                       tlb'[i] = TLBEntry(1, call'[2], call'[3], tick')
            /\ (ValidFor(call'[2]) = {} /\ ValidTlb # TlbIds) =>
                 tlb' = [tlb EXCEPT ![Lowest(TlbIds \ ValidTlb)] =
                                      TLBEntry(1, call'[2], call'[3], tick')]
            /\ (ValidFor(call'[2]) = {} /\ ValidTlb = TlbIds) =>
                 tlb' = [tlb EXCEPT ![Lowest(Oldest)] =
                                      TLBEntry(1, call'[2], call'[3], tick')]
       /\ call'[1] = "tlb_lookup" =>
            /\ ValidFor(call'[2]) = {} => (tlb' = tlb /\ call'[3] = -1)
            /\ ValidFor(call'[2]) # {} =>
                 /\ ChangedTlb = ValidFor(call'[2])
                 /\ \A i \in ChangedTlb :
                       /\ tlb'[i] = [tlb[i] EXCEPT !.last_used = tick']
                       /\ call'[3] = tlb[i].frame_index
       /\ call'[1] = "tlb_invalidate_vpn" =>
            \A i \in TlbIds :
               tlb'[i] = IF i \in ValidFor(call'[2])
                         THEN [tlb[i] EXCEPT !.valid = 0] ELSE tlb[i]
      ]_vars

\* C15's case: a full TLB of two entries, the entry in slot 0 touched by a
\* hit after slot 1 was filled, then a new VPN inserted over slot 1.
C15_Witness ==
    /\ tlb_size = 2 /\ call = <<"tlb_insert", 2, 0>> /\ tick = 4
    /\ tlb[0] = TLBEntry(1, 0, 0, 3)
    /\ tlb[1] = TLBEntry(1, 2, 0, 4)

\* C16 (dirty-bit meaning): under write-back, after every processed record
\* frame i is dirty if and only if it is occupied and its occupant was
\* written since it was installed (by the installing access, a frame hit or
\* a TLB hit); an empty frame is never dirty.
C16_DirtyMeaning ==
    /\ \A i \in FrameIds : dirty[i] \in {0, 1}
    /\ \A i \in FrameIds : frames[i] = -1 => dirty[i] = 0
    /\ write_policy = WP_WRITE_BACK =>
         \A i \in FrameIds : dirty[i] = 1 <=> (frames[i] # -1 /\ wrote[i])

\* C16's case: under write-back a written page was evicted, its successor
\* was installed by a read and then written through a TLB hit.
C16_Witness ==
    /\ write_policy = WP_WRITE_BACK /\ num_frames = 1
    /\ tick = 3 /\ writes = 2 /\ write_backs = 1
    /\ outcome = "tlb_hit" /\ dirty[frame] = 1 /\ installed_at[frame] = 2

\* The step processed a record that hit the TLB or a frame.
Hitting == outcome' \in {"tlb_hit", "hit"}

\* C17 (a hit changes no residency): a TLB hit or a frame hit counts no page
\* fault, changes no frame's VPN, moves neither the FIFO pointer nor the
\* CLOCK hand, counts no write-back and evicts nothing; it changes only the
\* hit frame's metadata: last-used tick under LRU, referenced bit under
\* CLOCK, dirty bit on a write under write-back; under FIFO with
\* write-through it changes no frame state at all.
C17_HitKeepsResidency ==
    [][Hitting =>
         /\ UNCHANGED <<page_faults, frames, fifo_index, clock_hand,
                        write_backs>>
         /\ evicted' = -1
         /\ frame' \in FrameIds /\ frames[frame'] # -1
         /\ \A i \in FrameIds \ {frame'} :
               /\ frame_last_used'[i] = frame_last_used[i]
               /\ ref_bits'[i] = ref_bits[i]
               /\ dirty'[i] = dirty[i]
         /\ frame_last_used'[frame'] =
              (IF alg = ALG_LRU THEN tick' ELSE frame_last_used[frame'])
         /\ ref_bits'[frame'] =
              (IF alg = ALG_CLOCK THEN 1 ELSE ref_bits[frame'])
         /\ dirty'[frame'] =
              (IF Writing /\ write_policy = WP_WRITE_BACK
               THEN 1 ELSE dirty[frame'])
         /\ (alg = ALG_FIFO /\ write_policy = WP_WRITE_THROUGH) =>
               UNCHANGED <<frames, frame_last_used, ref_bits, dirty>>
      ]_vars

\* C17's case: under FIFO with two frames and one TLB entry, after the two
\* fills, a frame hit on the first page and then a TLB hit on it: the FIFO
\* pointer is back at 0 and stays.
C17_Witness ==
    /\ alg = ALG_FIFO /\ num_frames = 2 /\ tlb_size = 1
    /\ tick = 4 /\ page_faults = 2 /\ tlb_hits = 1 /\ tlb_misses = 3
    /\ outcome = "tlb_hit" /\ frame = 0 /\ fifo_index = 0
    /\ accessed_at[0] = 4 /\ accessed_at[1] = 2

\* C18 (the TLB is transparent to paging): beside the run of the same trace
\* with the TLB disabled, every record faults in both runs or in neither,
\* evicts the same page into the same frame, and leaves the same frame
\* contents, frame metadata, policy pointers, page-fault count, write-back
\* count and access counts; the TLB-disabled run counts no TLB hit or miss.
C18_TlbTransparent ==
    [][/\ (outcome' = "fault") <=> (bare'.outcome = "fault")
       /\ (outcome' \in {"tlb_hit", "hit"}) <=> (bare'.outcome = "hit")
       /\ frame' = bare'.frame
       /\ evicted' = bare'.evicted
       /\ frames' = bare'.frames
       /\ frame_last_used' = bare'.frame_last_used
       /\ ref_bits' = bare'.ref_bits
       /\ dirty' = bare'.dirty
       /\ fifo_index' = bare'.fifo_index
       /\ clock_hand' = bare'.clock_hand
       /\ page_faults' = bare'.page_faults
       /\ write_backs' = bare'.write_backs
       /\ reads' = bare'.reads
       /\ writes' = bare'.writes
       /\ bare'.tlb_hits = 0 /\ bare'.tlb_misses = 0
      ]_vars

\* C18's case: under CLOCK with one frame fewer than pages, a TLB hit set
\* the referenced bit of its frame where the TLB-disabled run had a frame
\* hit, and the next fault evicted the same page in both runs.
C18_Witness ==
    /\ alg = ALG_CLOCK /\ num_frames = 2 /\ tlb_size > 0
    /\ tick = 4 /\ tlb_hits = 1 /\ page_faults = 3
    /\ evicted # -1 /\ bare.evicted = evicted
    /\ bare.outcome = "fault" /\ bare.tlb_hits = 0 /\ bare.page_faults = 3

\* The occupied frames, the resident VPNs and the VPNs with a valid TLB entry.
Occupied == {i \in FrameIds : frames[i] # -1}
ResidentVpns == {frames[i] : i \in Occupied}
TlbVpns == {tlb[i].vpn : i \in ValidTlb}
Min(a, b) == IF a <= b THEN a ELSE b

\* The TLB holds no more valid entries than min(tlb_size, occupied frames);
\* with tlb_size >= num_frames it holds exactly the resident VPNs, every TLB
\* miss was a page fault and the last record was no frame hit.
Mirrors ==
    /\ Cardinality(ValidTlb) <= Min(tlb_size, Cardinality(Occupied))
    /\ (tlb_size > 0 /\ tlb_size >= num_frames) =>
          /\ TlbVpns = ResidentVpns
          /\ tlb_misses = page_faults
          /\ outcome # "hit"

\* C19 (with tlb_size >= num_frames the TLB mirrors residency): after every
\* processed record Mirrors holds, and with tlb_size >= num_frames a fault
\* overwrites no valid TLB entry: every valid entry but that of the evicted
\* VPN is kept as it is.
C19_TlbMirrors ==
    [][/\ Mirrors'
       /\ (tlb_size >= num_frames /\ Faulting) =>
             \A i \in ValidTlb : tlb[i].vpn # evicted' => tlb'[i] = tlb[i]
      ]_vars

\* C19's case: two frames and two TLB entries, both full, and a third page
\* faulted in: its TLB entry took the slot of the evicted page.
C19_Witness ==
    /\ num_frames = 2 /\ tlb_size = 2
    /\ tick = 4 /\ tlb_hits = 1 /\ tlb_misses = 3 /\ page_faults = 3
    /\ evicted # -1 /\ outcome = "fault"
    /\ Cardinality(ValidTlb) = 2 /\ TlbVpns = ResidentVpns

\* C20 (indices stay in range): fifo_index and clock_hand are frame indices;
\* the victim of every page fault is a frame index; every valid TLB entry's
\* frame_index is a frame index, so that the frame a TLB hit returns passes
\* the range guard and names an occupied frame.
C20_IndicesInRange ==
    /\ fifo_index \in FrameIds
    /\ clock_hand \in FrameIds
    /\ outcome = "fault" => frame \in FrameIds
    /\ \A i \in ValidTlb : tlb[i].frame_index \in FrameIds
    /\ outcome = "tlb_hit" => (frame \in FrameIds /\ frames[frame] # -1)

\* C20's case: the FIFO pointer wrapped from the last frame to 0 on the
\* second eviction, whose victim was frame 1, and the TLB holds the new
\* mapping to frame 1.
C20_Witness ==
    /\ alg = ALG_FIFO /\ num_frames = 2 /\ tlb_size = 2
    /\ n_evictions = 2 /\ fifo_index = 0
    /\ outcome = "fault" /\ frame = 1
    /\ \E i \in ValidTlb : tlb[i].frame_index = 1 /\ tlb[i].vpn = frames[1]

=============================================================================
